---- MODULE Spec2Model ----
(***************************************************************************)
(* AREIA (Artificial Redshift Effects for IA): the ArtificialRedshift      *)
(* pipeline of areia.py as a state machine.  One behaviour is one          *)
(* construction of ArtificialRedshift: __init__ stores its arguments,      *)
(* picks the configuration and calls the seven stage methods in order.     *)
(*                                                                         *)
(* Images are square grids [n |-> side, px |-> rows of pixels]; a pixel is *)
(* an exact rational <<numerator, denominator>> (denominator 0 stands for  *)
(* the IEEE values NaN = <<0,0>> and +-inf = <<+-1,0>>).  An attribute     *)
(* that has not been assigned is Undef; reading it raises AttributeError.  *)
(***************************************************************************)
EXTENDS Integers, Sequences, FiniteSets, TLC

(* ---------------------------- bounds ---------------------------------- *)
\* raw input images have side 1..MaxSide; a supplied background has side
\* MaxSide or MaxSide + 1
MaxSide == 3
\* redshifts are the integers up to MaxZ
MaxZ == 2
\* pixel scales are the integers 1..MaxPixelscale
MaxPixelscale == 2

(* ------------------------- exact arithmetic --------------------------- *)
Abs(x) == IF x < 0 THEN -x ELSE x

Sgn(x) == IF x < 0 THEN -1 ELSE IF x = 0 THEN 0 ELSE 1

RECURSIVE GCD(_, _)
GCD(a, b) == IF b = 0 THEN a ELSE GCD(b, a % b)

\* the float n/d in lowest terms; d = 0 gives NaN (n = 0) or +-inf
Norm(n, d) ==
    IF d = 0 THEN <<Sgn(n), 0>>
    ELSE LET g == GCD(Abs(n), Abs(d))
             s == IF d < 0 THEN -1 ELSE 1
         IN  <<(s * n) \div g, (s * d) \div g>>

RInt(k) == <<k, 1>>

NaN == <<0, 0>>

IsFinite(r) == r[2] # 0

RMul(a, b) ==
    IF a[2] = 0 \/ b[2] = 0 THEN Norm(a[1] * b[1], 0)
    ELSE LET g1 == GCD(Abs(a[1]), b[2])
             g2 == GCD(Abs(b[1]), a[2])
             h1 == IF g1 = 0 THEN 1 ELSE g1
             h2 == IF g2 = 0 THEN 1 ELSE g2
         IN  Norm((a[1] \div h1) * (b[1] \div h2), (a[2] \div h2) * (b[2] \div h1))

RInv(a) == Norm(a[2], a[1])

RDiv(a, b) == RMul(a, RInv(b))

RAdd(a, b) ==
    IF a[2] = 0 /\ b[2] = 0 THEN (IF a = b THEN a ELSE NaN)
    ELSE IF a[2] = 0 THEN a
    ELSE IF b[2] = 0 THEN b
    ELSE LET g == GCD(a[2], b[2])
         IN  Norm(a[1] * (b[2] \div g) + b[1] * (a[2] \div g), (a[2] \div g) * b[2])

\* Python's round() on a non-negative finite float: ties go to the even integer
Round(r) ==
    LET q   == r[1] \div r[2]
        rem == r[1] % r[2]
    IN  IF 2 * rem < r[2] THEN q
        ELSE IF 2 * rem > r[2] THEN q + 1
        ELSE IF q % 2 = 0 THEN q ELSE q + 1

RECURSIVE RSum(_, _)
\* f[1] + ... + f[k]
RSum(f, k) == IF k = 0 THEN RInt(0) ELSE RAdd(RSum(f, k - 1), f[k])

(* ------------------------------ arrays -------------------------------- *)
\* an attribute that was never assigned / the argument None
Undef == [n |-> -1, px |-> <<>>]

None == Undef

UndefNum == <<0, -1>>

MkImage(side, Pixel(_, _)) ==
    [n |-> side, px |-> [i \in 1..side |-> [j \in 1..side |-> Pixel(i, j)]]]

\* array * scalar
Times(img, r) == MkImage(img.n, LAMBDA i, j : RMul(img.px[i][j], r))

\* array + array of the same shape
Plus(a, b) == MkImage(a.n, LAMBDA i, j : RAdd(a.px[i][j], b.px[i][j]))

(* ---------------- collaborators imported by areia.py ------------------ *)
\* Config.cosmo.luminosity_distance(z).value for the flat model H0 = 70,
\* Om0 = 0.3, Tcmb0 = 2.725, in units of 100 Mpc (z = 1 is 6607 Mpc, z = 2
\* is 15537 Mpc, ...); the distance at z = 0 is 0.
LumDistTable == <<66, 155, 254, 358, 466, 577>>

luminosity_distance(z) == IF z = 0 THEN 0 ELSE LumDistTable[z]

\* (1 + z)**(-0.97) to three decimals
SizeCorrectionTable == <<511, 345, 261, 210, 176, 151>>

\* 10**(0.4 k) to one decimal, k = 1, 2, ...
Pow10Table == <<25, 63, 158, 398, 1000, 2512>>

\* scipy.ndimage.zoom's sample position for output index i (1-based) of m,
\* over an input of n samples: the end points are aligned
ZoomLo(i, n, m) == IF m = 1 THEN 1 ELSE (((i - 1) * (n - 1)) \div (m - 1)) + 1

ZoomFrac(i, n, m) == IF m = 1 THEN RInt(0) ELSE Norm(((i - 1) * (n - 1)) % (m - 1), m - 1)

\* interpolation between two neighbouring samples (exact on the samples;
\* between them the order-3 spline is taken as linear)
Lerp(a, b, w) == RAdd(RMul(RAdd(RInt(1), RMul(RInt(-1), w)), a), RMul(w, b))

Resample(img, m) ==
    LET n == img.n
        At(i, j) == img.px[i][j]
        Rows == [i \in 1..m |-> [j \in 1..n |->
                   LET lo == ZoomLo(i, n, m)
                       w  == ZoomFrac(i, n, m)
                   IN  IF w = RInt(0) THEN At(lo, j) ELSE Lerp(At(lo, j), At(lo + 1, j), w)]]
    IN  [n |-> m,
         px |-> [i \in 1..m |-> [j \in 1..m |->
                   LET lo == ZoomLo(j, n, m)
                       w  == ZoomFrac(j, n, m)
                   IN  IF w = RInt(0) THEN Rows[i][lo]
                       ELSE Lerp(Rows[i][lo], Rows[i][lo + 1], w)]]]

\* scipy.ndimage.zoom(input, factor, prefilter=True), the outcomes it can
\* have: the output has int(round(n * factor)) samples a side; round()
\* raises on NaN and inf; asked for 0 samples the library either returns
\* the empty array or refuses
zoom(input, factor) ==
    IF ~IsFinite(factor)
    THEN {[err |-> IF factor = NaN THEN "ValueError" ELSE "OverflowError", out |-> Undef]}
    ELSE LET m == Round(RMul(RInt(input.n), factor))
         IN  {[err |-> "", out |-> Resample(input, m)]}
             \cup (IF m = 0 THEN {[err |-> "RuntimeError", out |-> Undef]} ELSE {})

KernelSum(k) == RSum([t \in 1..(k.n * k.n) |-> k.px[((t - 1) \div k.n) + 1][((t - 1) % k.n) + 1]],
                     k.n * k.n)

\* astropy.convolution.convolve(array, kernel), the outcomes it can have:
\* boundary='fill' with 0, the kernel normalised by its sum; an even-sided
\* kernel and a kernel summing to 0 are refused; given the empty array the
\* library either returns it or refuses
convolve(array, kernel) ==
    IF kernel.n % 2 = 0 THEN {[err |-> "KernelSizeError", out |-> Undef]}
    ELSE IF KernelSum(kernel)[1] <= 0 THEN {[err |-> "ValueError", out |-> Undef]}
    ELSE LET c == (kernel.n + 1) \div 2
             At(i, j) == IF i \in 1..array.n /\ j \in 1..array.n
                         THEN array.px[i][j] ELSE RInt(0)
             Term(i, j, t) == LET a == ((t - 1) \div kernel.n) + 1
                                  b == ((t - 1) % kernel.n) + 1
                              IN  RMul(kernel.px[a][b], At(i + a - c, j + b - c))
         IN  {[err |-> "",
               out |-> MkImage(array.n, LAMBDA i, j :
                         RDiv(RSum([t \in 1..(kernel.n * kernel.n) |-> Term(i, j, t)],
                                   kernel.n * kernel.n),
                              KernelSum(kernel)))]}
             \cup (IF array.n = 0 THEN {[err |-> "ValueError", out |-> Undef]} ELSE {})

\* galclean.central_segmentation_map(image): a boolean map of the image's
\* shape, True on the central source.  Two outcomes are drawn: the central
\* block of the frame, and an empty detection.
CentralBlock(n) == [i \in 1..n |-> [j \in 1..n |->
                      /\ i \in ((n + 1) \div 2)..((n \div 2) + 1)
                      /\ j \in ((n + 1) \div 2)..((n \div 2) + 1)]]

NoDetection(n) == [i \in 1..n |-> [j \in 1..n |-> FALSE]]

central_segmentation_map(img) == {CentralBlock(img.n), NoDetection(img.n)}

(* ------------------------------ inputs -------------------------------- *)
\* class Config: the flags as the class defines them.  They are class
\* attributes, and __init__ only ever instantiates Config(): a caller
\* selects the stages by assigning the flags on the class beforehand.
ConfigDefaults ==
    [add_background |-> TRUE, rebinning |-> TRUE, convolve_with_psf |-> TRUE,
     make_cutout |-> TRUE, dimming |-> TRUE, shot_noise |-> TRUE,
     size_correction |-> TRUE, evo |-> FALSE, evo_alpha |-> -1]

\* every setting of the eight gates on the class
AllConfigs ==
    [add_background : BOOLEAN, rebinning : BOOLEAN, convolve_with_psf : BOOLEAN,
     make_cutout : BOOLEAN, dimming : BOOLEAN, shot_noise : BOOLEAN,
     size_correction : BOOLEAN, evo : BOOLEAN, evo_alpha : {-1}]

AllDisabled == [ConfigDefaults EXCEPT !.add_background = FALSE, !.rebinning = FALSE,
                   !.convolve_with_psf = FALSE, !.make_cutout = FALSE, !.dimming = FALSE,
                   !.shot_noise = FALSE, !.size_correction = FALSE]

ObservationFrame(redshift, pixelscale, exptime) ==
    [pixelscale |-> pixelscale, redshift |-> redshift, exptime |-> exptime]

\* a raw frame: every pixel positive, no two rows or columns alike
RawImage(side) == MkImage(side, LAMBDA i, j : RInt(3 * i + j))

BgImage(side) == MkImage(side, LAMBDA i, j : RInt(10 * (i + j)))

\* a one-pixel kernel and a 3 x 3 cross
PointPSF == MkImage(1, LAMBDA i, j : RInt(1))

CrossPSF == MkImage(3, LAMBDA i, j : IF i = 2 /\ j = 2 THEN RInt(2)
                                      ELSE IF i = 2 \/ j = 2 THEN RInt(1) ELSE RInt(0))

\* values of one draw of np.random.randn scaled by the noise amplitude
NoiseSamples == {RInt(-1), RInt(2)}

\* values of measure_background's (mean, std) draw of np.random.normal
BackgroundSamples == {RInt(7)}

(* ------------------------------- state -------------------------------- *)
VARIABLES
    pc,                     \* the statement of __init__ about to run
    error,                  \* the exception that ended the run, "" if none
    Config,                 \* the class attributes of Config
    config_arg,             \* the argument config: <<>> is None, <<c>> a Config
    config,                 \* self.config: <<>> while unassigned
    image, psf, background, initial_frame, target_frame,
    cutout, masked, rebinned, dimmed, with_evolution, convolved,
    shot_noise, with_shot_noise, with_background, final,
    scale_factor, size_correction_factor, dimming_factor, evo_factor,
    offsets,                \* add_background's <<offset_min, offset_max>>
    created                 \* the intermediate images in the order assigned

vars == <<pc, error, Config, config_arg, config, image, psf, background,
          initial_frame, target_frame, cutout, masked, rebinned, dimmed,
          with_evolution, convolved, shot_noise, with_shot_noise,
          with_background, final, scale_factor, size_correction_factor,
          dimming_factor, evo_factor, offsets, created>>

images == <<cutout, masked, rebinned, dimmed, with_evolution, convolved,
            shot_noise, with_shot_noise, with_background, final>>

factors == <<scale_factor, size_correction_factor, dimming_factor, evo_factor>>

inputs == <<Config, config_arg, image, psf, initial_frame, target_frame>>

InitWith(InitialZ, TargetZ, Pixelscales, Gates, Supplied) ==
    /\ pc = "init"
    /\ error = ""
    /\ config_arg \in {<<>>} \cup {<<c>> : c \in Supplied}
    /\ Config \in Gates
    /\ config_arg # <<>> => Config = ConfigDefaults
    /\ config = <<>>
    /\ image \in {RawImage(s) : s \in 1..MaxSide}
    /\ psf \in {PointPSF, CrossPSF}
    /\ background \in {None, BgImage(MaxSide), BgImage(MaxSide + 1)}
    /\ initial_frame \in {ObservationFrame(z, p, 1) : z \in InitialZ, p \in Pixelscales}
    /\ target_frame \in {ObservationFrame(z, p, 1) : z \in TargetZ, p \in Pixelscales}
    /\ cutout = Undef /\ masked = Undef /\ rebinned = Undef /\ dimmed = Undef
    /\ with_evolution = Undef /\ convolved = Undef /\ shot_noise = Undef
    /\ with_shot_noise = Undef /\ with_background = Undef /\ final = Undef
    /\ scale_factor = UndefNum /\ size_correction_factor = UndefNum
    /\ dimming_factor = UndefNum /\ evo_factor = UndefNum
    /\ offsets = <<>>
    /\ created = <<>>

\* every gate setting; a source observed at redshift 1 is taken to the
\* redshifts 1..MaxZ at the same pixel scale
Init == InitWith({1}, 1..MaxZ, {1}, AllConfigs, {ConfigDefaults, AllDisabled})

\* the default gates; every pair of redshifts from 0 and of pixel scales
InitFrames == InitWith(0..MaxZ, 0..MaxZ, 1..MaxPixelscale, {ConfigDefaults},
                       {ConfigDefaults})

(* ------------------------- the stage computations --------------------- *)
\* __init__'s call sequence
StageOrder == <<"cutout_source", "geometric_rebinning", "apply_dimming",
                "evolution_correction", "convolve_psf", "apply_shot_noise",
                "add_background">>

StageIndex(s) == CHOOSE k \in 1..Len(StageOrder) : StageOrder[k] = s

\* a constructor that omits the call of apply_dimming
NextStageSkipsDimming(s) ==
    IF s = "geometric_rebinning" THEN "evolution_correction"
    ELSE IF StageIndex(s) = Len(StageOrder) THEN "done"
    ELSE StageOrder[StageIndex(s) + 1]

\* the statement __init__ runs after stage s returns
NextStage(s) ==
    IF StageIndex(s) = Len(StageOrder) THEN "done" ELSE StageOrder[StageIndex(s) + 1]

\* cutout_source without the copies: self.cutout and self.masked are the
\* caller's array, which both masks then zero
CutoutEffectNoCopy(img, segmentation) ==
    [image  |-> MkImage(img.n, LAMBDA i, j : RInt(0)),
     cutout |-> MkImage(img.n, LAMBDA i, j : RInt(0)),
     masked |-> MkImage(img.n, LAMBDA i, j : RInt(0)),
     final  |-> MkImage(img.n, LAMBDA i, j : RInt(0))]

\* cutout_source leaving the masked frame in self.final
CutoutEffectFinalMasked(img, segmentation) ==
    [image  |-> img,
     cutout |-> MkImage(img.n, LAMBDA i, j :
                   IF segmentation[i][j] = FALSE THEN RInt(0) ELSE img.px[i][j]),
     masked |-> MkImage(img.n, LAMBDA i, j :
                   IF segmentation[i][j] = TRUE THEN RInt(0) ELSE img.px[i][j]),
     final  |-> MkImage(img.n, LAMBDA i, j :
                   IF segmentation[i][j] = TRUE THEN RInt(0) ELSE img.px[i][j])]

\* cutout_source's copies and masks: what self.image, self.cutout,
\* self.masked and self.final hold afterwards
CutoutEffect(img, segmentation) ==
    [image  |-> img,
     cutout |-> MkImage(img.n, LAMBDA i, j :
                   IF segmentation[i][j] = FALSE THEN RInt(0) ELSE img.px[i][j]),
     masked |-> MkImage(img.n, LAMBDA i, j :
                   IF segmentation[i][j] = TRUE THEN RInt(0) ELSE img.px[i][j]),
     final  |-> MkImage(img.n, LAMBDA i, j :
                   IF segmentation[i][j] = FALSE THEN RInt(0) ELSE img.px[i][j])]

_size_correction(redshift) ==
    IF redshift = 0 THEN RInt(1) ELSE Norm(SizeCorrectionTable[redshift], 1000)

\* the scale factor with (1 + target z) to the first power
ScaleFactorUnsquared(initial, target) ==
    RDiv(RInt(luminosity_distance(initial.redshift)
              * (1 + target.redshift) * initial.pixelscale),
         RInt(luminosity_distance(target.redshift)
              * (1 + initial.redshift) * (1 + initial.redshift) * target.pixelscale))

\* self.scale_factor
ScaleFactor(initial, target) ==
    RDiv(RInt(luminosity_distance(initial.redshift)
              * (1 + target.redshift) * (1 + target.redshift) * initial.pixelscale),
         RInt(luminosity_distance(target.redshift)
              * (1 + initial.redshift) * (1 + initial.redshift) * target.pixelscale))

\* the array geometric_rebinning hands to zoom
RebinningInput == image

\* self.dimming_factor
DimmingFactor(initial, target) ==
    LET q == RDiv(RInt(luminosity_distance(initial.redshift)),
                  RInt(luminosity_distance(target.redshift)))
    IN  RMul(q, q)

\* self.evo_factor = 10**(-0.4 * evo_alpha * redshift)
EvoFactor(evo_alpha, redshift) ==
    LET k == -(evo_alpha * redshift)
    IN  IF k = 0 THEN RInt(1)
        ELSE IF k > 0 THEN Norm(Pow10Table[k], 10)
        ELSE Norm(10, Pow10Table[-k])

\* self.shot_noise: sqrt(|convolved * exptime|) * randn / exptime is 0 where
\* the flux is 0 and otherwise the drawn value
ShotNoise(conv, sample) ==
    MkImage(conv.n, LAMBDA i, j : IF conv.px[i][j] = RInt(0) THEN RInt(0) ELSE sample)

\* add_background's window for a source of side S in a background of side B
OffsetMin(B, S) == (B \div 2) - (S \div 2) - (IF S % 2 = 0 THEN 0 ELSE 1)

OffsetMax(B, S) == (B \div 2) + (S \div 2)

\* the indices start..stop-1 (0-based) Python's slice lo:hi selects of len
SliceStart(lo, len) == IF lo < 0 THEN (IF lo + len < 0 THEN 0 ELSE lo + len)
                       ELSE IF lo > len THEN len ELSE lo

SliceStop(hi, len) == SliceStart(hi, len)

\* compositing into self.background itself, without the copy
CompositeInPlace(bg, source, lo, hi) ==
    LET start == SliceStart(lo, bg.n)
        stop  == SliceStop(hi, bg.n)
        len   == IF stop > start THEN stop - start ELSE 0
        Src(i, j) == IF source.n = 1 THEN source.px[1][1]
                     ELSE source.px[i - start][j - start]
        sum   == MkImage(bg.n, LAMBDA i, j :
                     IF i - 1 >= start /\ i - 1 < stop /\ j - 1 >= start /\ j - 1 < stop
                     THEN RAdd(bg.px[i][j], Src(i, j)) ELSE bg.px[i][j])
    IN  IF source.n # len /\ source.n # 1
        THEN [err |-> "ValueError", background |-> bg, with_background |-> Undef]
        ELSE [err |-> "", background |-> sum, with_background |-> sum]

\* with_background = background.copy(); with_background[lo:hi, lo:hi] += source
\* gives what self.background and self.with_background hold afterwards;
\* numpy refuses a source that is neither of the window's shape nor 1 x 1
Composite(bg, source, lo, hi) ==
    LET start == SliceStart(lo, bg.n)
        stop  == SliceStop(hi, bg.n)
        len   == IF stop > start THEN stop - start ELSE 0
        Src(i, j) == IF source.n = 1 THEN source.px[1][1]
                     ELSE source.px[i - start][j - start]
    IN  IF source.n # len /\ source.n # 1
        THEN [err |-> "ValueError", background |-> bg, with_background |-> Undef]
        ELSE [err |-> "",
              background |-> bg,
              with_background |-> MkImage(bg.n, LAMBDA i, j :
                  IF i - 1 >= start /\ i - 1 < stop /\ j - 1 >= start /\ j - 1 < stop
                  THEN RAdd(bg.px[i][j], Src(i, j)) ELSE bg.px[i][j])]

(* ------------------------------ the run ------------------------------- *)
cfg == config[1]

\* an exception leaves __init__: what was assigned before it stays
Raise(e) == pc' = "failed" /\ error' = e

Return == pc' = NextStage(pc) /\ error' = error

\* __init__ up to the first stage call: self.config is assigned only when
\* the argument is None; reading self.config.cosmo raises otherwise
Construct ==
    /\ pc = "init"
    /\ IF config_arg = <<>>
       THEN /\ config' = <<Config>>
            /\ pc' = StageOrder[1]
            /\ error' = error
       ELSE /\ config' = config
            /\ Raise("AttributeError")
    /\ UNCHANGED <<inputs, background, images, factors, offsets, created>>

cutout_source ==
    /\ pc = "cutout_source"
    /\ IF cfg.make_cutout
       THEN \E segmentation \in central_segmentation_map(image) :
              LET r == CutoutEffect(image, segmentation)
              IN  /\ image' = r.image
                  /\ cutout' = r.cutout
                  /\ masked' = r.masked
                  /\ final' = r.final
                  /\ created' = created \o <<"cutout", "masked">>
       ELSE UNCHANGED <<image, cutout, masked, final, created>>
    /\ Return
    /\ UNCHANGED <<Config, config_arg, config, psf, background, initial_frame,
                   target_frame, rebinned, dimmed, with_evolution, convolved,
                   shot_noise, with_shot_noise, with_background, factors, offsets>>

geometric_rebinning ==
    /\ pc = "geometric_rebinning"
    /\ LET correction == IF cfg.size_correction
                         THEN _size_correction(target_frame.redshift) ELSE RInt(1)
           scale == IF cfg.rebinning
                    THEN ScaleFactor(initial_frame, target_frame) ELSE RInt(1)
       IN  /\ size_correction_factor' = correction
           /\ scale_factor' = IF cfg.rebinning THEN scale ELSE scale_factor
           /\ IF cfg.rebinning \/ cfg.size_correction
              THEN \E z \in zoom(RebinningInput, RMul(scale, correction)) :
                     IF z.err # ""
                     THEN Raise(z.err) /\ UNCHANGED <<rebinned, final, created>>
                     ELSE /\ rebinned' = z.out
                          /\ final' = z.out
                          /\ created' = Append(created, "rebinned")
                          /\ Return
              ELSE Return /\ UNCHANGED <<rebinned, final, created>>
    /\ UNCHANGED <<inputs, config, background, cutout, masked, dimmed, with_evolution,
                   convolved, shot_noise, with_shot_noise, with_background,
                   dimming_factor, evo_factor, offsets>>

apply_dimming ==
    /\ pc = "apply_dimming"
    /\ IF cfg.dimming
       THEN /\ dimming_factor' = DimmingFactor(initial_frame, target_frame)
            /\ IF final = Undef
               THEN Raise("AttributeError") /\ UNCHANGED <<dimmed, final, created>>
               ELSE /\ dimmed' = Times(final, dimming_factor')
                    /\ final' = dimmed'
                    /\ created' = Append(created, "dimmed")
                    /\ Return
       ELSE Return /\ UNCHANGED <<dimming_factor, dimmed, final, created>>
    /\ UNCHANGED <<inputs, config, background, cutout, masked, rebinned, with_evolution,
                   convolved, shot_noise, with_shot_noise, with_background,
                   scale_factor, size_correction_factor, evo_factor, offsets>>

evolution_correction ==
    /\ pc = "evolution_correction"
    /\ IF cfg.evo
       THEN /\ evo_factor' = EvoFactor(cfg.evo_alpha, target_frame.redshift)
            /\ IF final = Undef
               THEN Raise("AttributeError") /\ UNCHANGED <<with_evolution, final, created>>
               ELSE /\ with_evolution' = Times(final, evo_factor')
                    /\ final' = with_evolution'
                    /\ created' = Append(created, "with_evolution")
                    /\ Return
       ELSE Return /\ UNCHANGED <<evo_factor, with_evolution, final, created>>
    /\ UNCHANGED <<inputs, config, background, cutout, masked, rebinned, dimmed,
                   convolved, shot_noise, with_shot_noise, with_background,
                   scale_factor, size_correction_factor, dimming_factor, offsets>>

convolve_psf ==
    /\ pc = "convolve_psf"
    /\ IF cfg.convolve_with_psf
       THEN IF final = Undef
            THEN Raise("AttributeError") /\ UNCHANGED <<convolved, final, created>>
            ELSE \E c \in convolve(final, psf) :
                   IF c.err # ""
                   THEN Raise(c.err) /\ UNCHANGED <<convolved, final, created>>
                   ELSE /\ convolved' = c.out
                        /\ final' = c.out
                        /\ created' = Append(created, "convolved")
                        /\ Return
       ELSE Return /\ UNCHANGED <<convolved, final, created>>
    /\ UNCHANGED <<inputs, config, background, cutout, masked, rebinned, dimmed,
                   with_evolution, shot_noise, with_shot_noise, with_background,
                   factors, offsets>>

apply_shot_noise ==
    /\ pc = "apply_shot_noise"
    /\ IF cfg.shot_noise
       THEN IF convolved = Undef
            THEN /\ Raise("AttributeError")
                 /\ UNCHANGED <<shot_noise, with_shot_noise, final, created>>
            ELSE \E sample \in NoiseSamples :
                   /\ shot_noise' = ShotNoise(convolved, sample)
                   /\ with_shot_noise' = Plus(final, shot_noise')
                   /\ final' = with_shot_noise'
                   /\ created' = Append(created, "with_shot_noise")
                   /\ Return
       ELSE Return /\ UNCHANGED <<shot_noise, with_shot_noise, final, created>>
    /\ UNCHANGED <<inputs, config, background, cutout, masked, rebinned, dimmed,
                   with_evolution, convolved, with_background, factors, offsets>>

add_background ==
    /\ pc = "add_background"
    /\ IF cfg.add_background
       THEN \E level \in BackgroundSamples :
              LET bg == IF background = None
                        THEN MkImage(image.n, LAMBDA i, j : level) ELSE background
              IN  IF with_shot_noise = Undef
                  THEN /\ background' = bg
                       /\ Raise("AttributeError")
                       /\ UNCHANGED <<offsets, with_background, final, created>>
                  ELSE LET lo == OffsetMin(bg.n, with_shot_noise.n)
                           hi == OffsetMax(bg.n, with_shot_noise.n)
                           r  == Composite(bg, with_shot_noise, lo, hi)
                       IN  /\ offsets' = <<lo, hi>>
                           /\ background' = r.background
                           /\ IF r.err # ""
                              THEN /\ Raise(r.err)
                                   /\ UNCHANGED <<with_background, final, created>>
                              ELSE /\ with_background' = r.with_background
                                   /\ final' = r.with_background
                                   /\ created' = Append(created, "with_background")
                                   /\ Return
       ELSE Return /\ UNCHANGED <<background, offsets, with_background, final, created>>
    /\ UNCHANGED <<inputs, config, cutout, masked, rebinned, dimmed, with_evolution,
                   convolved, shot_noise, with_shot_noise, factors>>

Next ==
    \/ Construct
    \/ cutout_source
    \/ geometric_rebinning
    \/ apply_dimming
    \/ evolution_correction
    \/ convolve_psf
    \/ apply_shot_noise
    \/ add_background

Spec == Init /\ [][Next]_vars

SpecFrames == InitFrames /\ [][Next]_vars

(* ------------------------------ claims -------------------------------- *)
Ended == pc \in {"done", "failed"}

\* the configuration the caller asked for
Requested == IF config_arg # <<>> THEN config_arg[1] ELSE Config

GatesOff(c) ==
    /\ ~c.make_cutout /\ ~c.rebinning /\ ~c.size_correction /\ ~c.dimming
    /\ ~c.evo /\ ~c.convolve_with_psf /\ ~c.shot_noise /\ ~c.add_background

One == RInt(1)

\* C1: constructed with every gate disabled, the run completes and final
\* is the raw input image.
C1_AllGatesOffFinalIsRaw ==
    (Ended /\ GatesOff(Requested)) => (pc = "done" /\ final = image)

\* C2: a configuration passed to the constructor is the one the run uses:
\* the run holds it as its configuration, and each stage's image exists at
\* the end exactly when the stage's gate is on in it.
C2_SuppliedConfigIsUsed ==
    (Ended /\ config_arg # <<>>) =>
        /\ config = config_arg
        /\ pc = "done"
        /\ (cutout # Undef) <=> config_arg[1].make_cutout
        /\ (rebinned # Undef) <=> config_arg[1].rebinning
        /\ (dimmed # Undef) <=> config_arg[1].dimming
        /\ (with_evolution # Undef) <=> config_arg[1].evo
        /\ (convolved # Undef) <=> config_arg[1].convolve_with_psf
        /\ (with_shot_noise # Undef) <=> config_arg[1].shot_noise
        /\ (with_background # Undef) <=> config_arg[1].add_background

\* the output of the stage that produced an image last
LatestOutput ==
    LET name == created[Len(created)]
    IN  CASE name \in {"cutout", "masked"} -> cutout
          [] name = "rebinned" -> rebinned
          [] name = "dimmed" -> dimmed
          [] name = "with_evolution" -> with_evolution
          [] name = "convolved" -> convolved
          [] name = "with_shot_noise" -> with_shot_noise
          [] name = "with_background" -> with_background

FinalIsLatest == created # <<>> => final = LatestOutput

\* whether the stage at pc is enabled, the rebinning stage by gate G
StageEnabled(G) ==
    CASE pc = "cutout_source" -> cfg.make_cutout
      [] pc = "geometric_rebinning" -> G
      [] pc = "apply_dimming" -> cfg.dimming
      [] pc = "evolution_correction" -> cfg.evo
      [] pc = "convolve_psf" -> cfg.convolve_with_psf
      [] pc = "apply_shot_noise" -> cfg.shot_noise
      [] pc = "add_background" -> cfg.add_background

StageFinished == pc \notin {"init", "done", "failed"} /\ pc' # "failed"

FinalTracks(G) ==
    /\ FinalIsLatest'
    /\ StageFinished =>
         IF StageEnabled(G)
         THEN created' # created /\ final' = LatestOutput'
         ELSE final' = final

\* C3 as stated: final is the latest image; an enabled stage (the rebinning
\* stage is enabled by the rebinning gate) leaves its output in final and a
\* disabled stage leaves final as it was.
C3_FinalTracksLatest == [][FinalTracks(cfg.rebinning)]_vars

\* C3 amended: the same, the geometric rebinning stage counting as disabled
\* only when rebinning and size_correction are both off; with rebinning off
\* and size_correction on it resamples the raw image and final is rebinned.
C3_FinalTracksLatestAmended == [][FinalTracks(cfg.rebinning \/ cfg.size_correction)]_vars

C3_Witness ==
    /\ pc = "done"
    /\ ~cfg.rebinning /\ cfg.size_correction /\ ~cfg.evo
    /\ rebinned # Undef /\ with_evolution = Undef
    /\ final = with_background /\ with_background # Undef

ClaimedImages == <<"cutout", "masked", "rebinned", "dimmed", "with_evolution",
                   "convolved", "with_shot_noise", "with_background">>

Position(name) == CHOOSE k \in 1..Len(ClaimedImages) : ClaimedImages[k] = name

Rank(p) ==
    CASE p = "init" -> 0
      [] p = "cutout_source" -> 1
      [] p = "geometric_rebinning" -> 2
      [] p = "apply_dimming" -> 3
      [] p = "evolution_correction" -> 4
      [] p = "convolve_psf" -> 5
      [] p = "apply_shot_noise" -> 6
      [] p = "add_background" -> 7
      [] p = "done" -> 8
      [] p = "failed" -> 9

\* C4: the stages run in the fixed order cutout, rebinning, dimming,
\* evolution, convolution, shot noise, background; none is entered twice,
\* and the intermediate images are created at most once each, in that order.
C4_StagesInOrderOnce ==
    [][ /\ Rank(pc') > Rank(pc)
        /\ pc' # "failed" => Rank(pc') = Rank(pc) + 1
        /\ \A a, b \in 1..Len(created') :
             a < b => Position(created'[a]) < Position(created'[b]) ]_vars

C4_Witness == pc = "done" /\ created = ClaimedImages

\* C5: for a source of side S in a background of side B, 1 <= S <= B, the
\* window [offset_min, offset_max) has S rows, lies inside the background
\* and leaves paddings before and after that differ by at most one.
C5_WindowCentred ==
    (offsets # <<>> /\ with_shot_noise.n >= 1 /\ with_shot_noise.n <= background.n) =>
        /\ offsets[2] - offsets[1] = with_shot_noise.n
        /\ 0 <= offsets[1]
        /\ offsets[2] <= background.n
        /\ Abs(offsets[1] - (background.n - offsets[2])) <= 1

InWindow(i, j) ==
    /\ offsets[1] <= i - 1 /\ i - 1 < offsets[2]
    /\ offsets[1] <= j - 1 /\ j - 1 < offsets[2]

Composited ==
    with_background # Undef =>
        /\ with_background.n = background.n
        /\ final = with_background
        /\ \A i, j \in 1..background.n :
             with_background.px[i][j] =
                 IF InWindow(i, j)
                 THEN RAdd(background.px[i][j],
                           with_shot_noise.px[i - offsets[1]][j - offsets[1]])
                 ELSE background.px[i][j]

\* C6: after compositing the output has the background's shape; inside the
\* window a pixel is the background pixel plus the source pixel, outside it
\* the background pixel; the background held before is not modified.
C6_CompositeAddsIntoWindow ==
    /\ []Composited
    /\ [][background # None => background' = background]_vars

C6_Witness ==
    /\ pc = "done" /\ with_background # Undef
    /\ with_shot_noise.n = 2 /\ background.n > 2
    /\ with_background # background

SameFrames ==
    /\ initial_frame.redshift = target_frame.redshift
    /\ initial_frame.pixelscale = target_frame.pixelscale

FactorsAreOne ==
    /\ scale_factor # UndefNum => scale_factor = One
    /\ dimming_factor # UndefNum => dimming_factor = One

\* C7 as stated: with equal redshifts and equal pixel scales the scale
\* factor and the dimming factor are 1, for every redshift.
C7_SameFrameFactorsAreOne == SameFrames => FactorsAreOne

\* C7 amended: the same for every redshift above 0; at redshift 0 both
\* luminosity distances are 0 and the factors are 0/0.
C7_SameFrameFactorsAreOneAmended ==
    (SameFrames /\ initial_frame.redshift > 0) => FactorsAreOne

C7_Witness ==
    /\ SameFrames /\ initial_frame.redshift > 0 /\ initial_frame.pixelscale > 1
    /\ scale_factor = One /\ dimming_factor = One

\* C8: with make_cutout and rebinning on, rebinned is the resampling of
\* the cutout.
C8_RebinnedFromCutout ==
    (config # <<>> /\ cutout # Undef /\ rebinned # Undef /\ cfg.rebinning) =>
        \E z \in zoom(cutout, RMul(scale_factor, size_correction_factor)) :
            z.err = "" /\ rebinned = z.out

\* C9: for every setting of the gates each enabled stage finds its input
\* defined and the run completes with a defined final.
C9_StageInputsDefined ==
    /\ error # "AttributeError"
    /\ pc = "done" => final # Undef

\* C10: an intermediate image, once produced, keeps its value to the end of
\* the run, and the raw input image and the PSF are not changed by the run.
C10_NothingRewritten ==
    [][ /\ image' = image
        /\ psf' = psf
        /\ cutout # Undef => cutout' = cutout
        /\ masked # Undef => masked' = masked
        /\ rebinned # Undef => rebinned' = rebinned
        /\ dimmed # Undef => dimmed' = dimmed
        /\ with_evolution # Undef => with_evolution' = with_evolution
        /\ convolved # Undef => convolved' = convolved
        /\ with_shot_noise # Undef => with_shot_noise' = with_shot_noise
        /\ with_background # Undef => with_background' = with_background ]_vars

C10_Witness ==
    /\ pc = "done" /\ created = ClaimedImages
    /\ cutout # image /\ with_background # Undef

====
